---- MODULE Spec2Model ----
(***************************************************************************)
(* A model of xobliam's Smart Delete subsystem: the safety scorer, the     *)
(* candidate finder, the exception detector and the deletion executor with *)
(* the local message cache and the mail provider it talks to.              *)
(*                                                                         *)
(* Text (subject, snippet) is a sequence of tokens of a small vocabulary;  *)
(* a substring or regex test of the source is the test "some token of the  *)
(* text matches", with the matching tokens tabulated per pattern list.     *)
(* Time is counted in whole days.                                          *)
(***************************************************************************)
EXTENDS Integers, Sequences, FiniteSets, TLC

VARIABLES pc, now, cache, provider, call, result

vars == <<pc, now, cache, provider, call, result>>

----------------------------------------------------------------------------
(* Bounds of the model *)

\* the day on which the model starts
Today == 100
\* how many days the clock may advance
MaxTicks == 1
\* longest message list handed to the candidate finder
MaxMsgs == 2
\* longest id list handed to the executor
MaxIds == 2
\* how far outside 0..100 get_safety_tier is tried
MaxOutside == 3

\* the hours a last_fetch is followed for
MaxHours == 1

\* the length of the provider's scripted answers to get requests
MaxResponses == 5

----------------------------------------------------------------------------
(* Python values: the result of a call is a tagged value, so that the shape *)
(* a caller relies on (an int, a dict with given keys) can be checked.      *)

PyInt(n) == [type |-> "int", value |-> n]
PyDict(d) == [type |-> "dict", value |-> d]

Returned(v) == [outcome |-> "return", value |-> v]

\* dict.get(key, default)
DictGet(d, key, default) == IF key \in DOMAIN d THEN d[key] ELSE default

Max(a, b) == IF a >= b THEN a ELSE b
Min(a, b) == IF a <= b THEN a ELSE b

Range(s) == {s[i] : i \in 1..Len(s)}

----------------------------------------------------------------------------
(* Strings *)

\* str.lower() on the strings of the model
Lower(s) ==
    CASE s = "Re:" -> "re:"
      [] s = "Promo@Marketing.com" -> "promo@marketing.com"
      [] s = "1Z999AA10123456784" -> "1z999aa10123456784"
      [] s = "3:30 PM" -> "3:30 pm"
      [] s = "ABC123" -> "abc123"
      [] s = "UA123" -> "ua123"
      [] s = "John" -> "john"
      [] OTHER -> s

\* needle in hay, for the senders and patterns of the model
SubstringTable ==
    { <<"boss@mycompany.com", "mycompany.com">>,
      <<"promo@marketing.com", "promo">>,
      <<"promo@marketing.com", "marketing.com">> }

Contains(hay, needle) ==
    \/ needle = ""
    \/ hay = needle
    \/ <<hay, needle>> \in SubstringTable

\* the lower-cased tokens of a text
LowerTokens(text) == {Lower(text[i]) : i \in 1..Len(text)}

\* f"{a} {b}": the tokens of both texts
Join(a, b) == a \o b

----------------------------------------------------------------------------
(* Messages and user contexts *)

Subjects == { <<>>, <<"sale">>, <<"Re:", "receipt">> }

Snippets == { <<>>, <<"unsubscribe">>, <<"1Z999AA10123456784">>,
              <<"$150.00">>, <<"$20.00">> }

Senders == { "", "Promo@Marketing.com", "boss@mycompany.com" }

\* a date is <<>> when the field is absent, else <<day>>
Dates == { <<>>, <<Today - 6>>, <<Today - 7>>, <<Today - 31>>, <<Today - 61>> }

ThreadIds == { "", "t1" }

LabelSets == { {}, {"STARRED"} }

MsgIds == { "m1", "m2", "m3", "m4", "m5" }

Contexts ==
    [ user_domain : {"", "mycompany.com"},
      deleted_senders : { {}, {"promo@marketing.com"} },
      replied_threads : { {}, {"t1"} },
      high_engagement_senders : { {}, {"boss@mycompany.com"} } ]

Messages ==
    [ message_id : {"m1"},
      thread_id : ThreadIds,
      date : Dates,
      sender : Senders,
      subject : Subjects,
      snippet : Snippets,
      labels : LabelSets,
      is_unread : BOOLEAN,
      has_attachments : BOOLEAN ]

----------------------------------------------------------------------------
(* taxonomy: classify_message over the rule table *)

SENDER_TYPES ==
    << [category |-> "professional", priority |-> 2,
        from_patterns |-> {}, subject_patterns |-> {}, signals |-> {}],
       [category |-> "marketing", priority |-> 5,
        from_patterns |-> {"promo"}, subject_patterns |-> {"sale"},
        signals |-> {}],
       [category |-> "newsletter", priority |-> 6,
        from_patterns |-> {}, subject_patterns |-> {},
        signals |-> {"unsubscribe"}],
       [category |-> "transactional", priority |-> 3,
        from_patterns |-> {}, subject_patterns |-> {"receipt"},
        signals |-> {}] >>

CategoryScore(rules, message, user_domain) ==
    LET sender == Lower(message.sender)
        subject == LowerTokens(message.subject)
        content == LowerTokens(Join(message.subject, message.snippet))
        from_hit == \E p \in rules.from_patterns : Contains(sender, p)
    IN  (IF from_hit THEN 3 ELSE 0)
        + (IF rules.subject_patterns \cap subject # {} THEN 2 ELSE 0)
        + Cardinality(rules.signals \cap content)
        + (IF rules.category = "professional" /\ user_domain # ""
              /\ Contains(sender, Lower(user_domain)) THEN 5 ELSE 0)

RECURSIVE ClassifyLoop(_, _, _, _, _)
ClassifyLoop(i, best_match, best_priority, message, user_domain) ==
    IF i > Len(SENDER_TYPES) THEN best_match
    ELSE LET rules == SENDER_TYPES[i]
             score == CategoryScore(rules, message, user_domain)
             take == score > 0
                     /\ (best_match = "unknown" \/ rules.priority < best_priority)
         IN  ClassifyLoop(i + 1,
                          IF take THEN rules.category ELSE best_match,
                          IF take THEN rules.priority ELSE best_priority,
                          message, user_domain)

classify_message(message, user_domain) ==
    ClassifyLoop(1, "unknown", 999, message, user_domain)

----------------------------------------------------------------------------
(* exception_detector.py *)

Exc(type, detail, severity) ==
    [type |-> type, detail |-> detail, severity |-> severity]

\* tokens that a pattern of ORDER_PATTERNS matches (case-insensitive)
OrderTokens == { "order #12345" }

\* tokens that a pattern of TRACKING_PATTERNS matches, with the carrier;
\* the match is case-insensitive and the captured group has >= 12 characters
TrackingTokens == { "1z999aa10123456784" }

\* the float extract_dollar_amounts reads from a token, in whole dollars
DollarAmount(token) ==
    CASE token = "$150.00" -> <<150>>
      [] token = "$20.00" -> <<20>>
      [] OTHER -> <<>>

RECURSIVE extract_dollar_amounts(_)
extract_dollar_amounts(text) ==
    IF text = <<>> THEN <<>>
    ELSE DollarAmount(text[1]) \o extract_dollar_amounts(Tail(text))

\* the first keyword of the list that occurs in the text, <<>> when none
RECURSIVE has_keyword_match(_, _)
has_keyword_match(text, keywords) ==
    IF keywords = <<>> THEN <<>>
    ELSE IF keywords[1] \in LowerTokens(text) THEN << keywords[1] >>
    ELSE has_keyword_match(text, Tail(keywords))

\* tokens that a pattern of ACCOUNT_PATTERNS matches (case-insensitive)
AccountTokens == { "account ending in 1234" }

\* tokens that contain "due date" or "payment due"; none of them carries the
\* date the due-date pattern looks for
DueTokens == { "due date" }

\* tokens that TIME_PATTERN, CONFIRMATION_CODE_PATTERN and
\* FLIGHT_NUMBER_PATTERN match (case-sensitive); no token of the vocabulary
\* matches AIRPORT_CODE_PATTERN
TimeTokens == { "3:30 PM" }
ConfirmationCodeTokens == { "ABC123" }
FlightNumberTokens == { "UA123" }

SHIPPING_KEYWORDS ==
    << "shipped", "delivered", "tracking", "out for delivery",
       "in transit", "package", "shipment", "carrier" >>

FINANCIAL_KEYWORDS ==
    << "payment", "statement", "balance", "transaction", "invoice",
       "billing", "charged", "credit", "debit", "refund",
       "autopay", "due date", "payment due", "amount due" >>

APPOINTMENT_KEYWORDS ==
    << "appointment", "reservation", "booking", "scheduled for",
       "confirmed for", "reminder", "upcoming visit" >>

TRAVEL_KEYWORDS ==
    << "flight", "itinerary", "boarding pass", "hotel",
       "check-in", "check-out", "airline", "airport",
       "departure", "arrival", "gate", "terminal" >>

SECURITY_KEYWORDS ==
    << "password reset", "verify your", "security alert",
       "unusual activity", "sign-in attempt", "login attempt",
       "two-factor", "2fa", "verification code", "security code",
       "suspicious", "unauthorized", "confirm your identity" >>

LEGAL_KEYWORDS ==
    << "terms of service", "privacy policy", "agreement",
       "contract", "policy update", "action required",
       "respond by", "deadline", "legal notice",
       "important notice", "account suspension", "final notice" >>

detect_order_shipping(text) ==
    LET order == IF LowerTokens(text) \cap OrderTokens # {}
                 THEN << Exc("order_number", "Order #", 40) >> ELSE <<>>
        tracking == IF LowerTokens(text) \cap TrackingTokens # {}
                    THEN << Exc("tracking_number", "tracking", 45) >> ELSE <<>>
        found == order \o tracking
        keyword == has_keyword_match(text, SHIPPING_KEYWORDS)
    IN  IF found = <<>> /\ keyword # <<>>
        THEN << Exc("shipping", keyword[1], 25) >>
        ELSE found

detect_financial(text) ==
    LET amounts == extract_dollar_amounts(text)
        significant == {a \in Range(amounts) : a >= 100}
        amount == IF significant # {}
                  THEN << Exc("financial_amount", "Contains $", 50) >> ELSE <<>>
        account == IF LowerTokens(text) \cap AccountTokens # {}
                   THEN << Exc("account_number", "Account", 40) >> ELSE <<>>
        bill_due == IF LowerTokens(text) \cap DueTokens # {}
                    THEN << Exc("bill_due", "Contains due date reference", 45) >>
                    ELSE <<>>
        found == amount \o account \o bill_due
        keyword == has_keyword_match(text, FINANCIAL_KEYWORDS)
    IN  IF found = <<>> /\ keyword # <<>>
        THEN << Exc("financial", keyword[1], 20) >>
        ELSE found

detect_appointments(text) ==
    LET keyword == has_keyword_match(text, APPOINTMENT_KEYWORDS)
    IN  IF keyword = <<>> THEN <<>>
        ELSE IF Range(text) \cap TimeTokens # {}
        THEN << Exc("appointment", "Scheduled at", 50) >>
        ELSE IF Range(text) \cap ConfirmationCodeTokens # {}
        THEN << Exc("reservation", "Confirmation", 45) >>
        ELSE << Exc("appointment", keyword[1], 35) >>

detect_travel(text) ==
    LET keyword == has_keyword_match(text, TRAVEL_KEYWORDS)
    IN  IF keyword = <<>> THEN <<>>
        ELSE IF Range(text) \cap FlightNumberTokens # {}
        THEN << Exc("flight", "Flight", 55) >>
        ELSE << Exc("travel", keyword[1], 40) >>

detect_security(text) ==
    LET keyword == has_keyword_match(text, SECURITY_KEYWORDS)
    IN  IF keyword = <<>> THEN <<>>
        ELSE << Exc("security", keyword[1], 60) >>

detect_legal_important(text) ==
    LET keyword == has_keyword_match(text, LEGAL_KEYWORDS)
    IN  IF keyword = <<>> THEN <<>>
        ELSE << Exc("legal_important", keyword[1],
                    IF keyword[1] \in {"action required", "respond by",
                                       "deadline", "final notice"}
                    THEN 60 ELSE 45) >>

\* the first name of important_names that occurs in the lower-cased text
RECURSIVE FirstNameIn(_, _)
FirstNameIn(important_names, text) ==
    IF important_names = <<>> THEN <<>>
    ELSE IF Lower(important_names[1]) \in LowerTokens(text)
    THEN << important_names[1] >>
    ELSE FirstNameIn(Tail(important_names), text)

\* the context indicators without the attachment check
detect_personal_indicators_context_only(message, user_context) ==
    LET replied == IF Lower(message.sender)
                         \in DictGet(user_context, "replied_senders", {})
                   THEN << Exc("replied_sender",
                               "Previously replied to this sender", 35) >>
                   ELSE <<>>
    IN  IF DOMAIN user_context = {} THEN <<>> ELSE replied

\* an absent or empty user_context is falsy: only the attachment indicator
\* is looked at
detect_personal_indicators(message, user_context) ==
    LET attachments == IF message.has_attachments
                       THEN << Exc("has_attachments", "Contains attachments", 30) >>
                       ELSE <<>>
        replied == IF Lower(message.sender)
                         \in DictGet(user_context, "replied_senders", {})
                   THEN << Exc("replied_sender",
                               "Previously replied to this sender", 35) >>
                   ELSE <<>>
        name == FirstNameIn(DictGet(user_context, "important_names", <<>>),
                            Join(message.subject, message.snippet))
        named == IF name # <<>>
                 THEN << Exc("important_name", name[1], 40) >> ELSE <<>>
    IN  IF DOMAIN user_context = {} THEN attachments
        ELSE attachments \o replied \o named

\* seen_types keyed by severity instead of type
RECURSIVE DedupBySeverity(_, _)
DedupBySeverity(all_exceptions, seen) ==
    IF all_exceptions = <<>> THEN seen
    ELSE LET exc == all_exceptions[1]
             at == {i \in 1..Len(seen) : seen[i].severity = exc.severity}
         IN  IF at = {} THEN DedupBySeverity(Tail(all_exceptions), Append(seen, exc))
             ELSE DedupBySeverity(Tail(all_exceptions), seen)

\* seen_types: one exception per type, a later one replacing an earlier one
\* in place when its severity is strictly higher
RECURSIVE Dedup(_, _)
Dedup(all_exceptions, seen) ==
    IF all_exceptions = <<>> THEN seen
    ELSE LET exc == all_exceptions[1]
             at == {i \in 1..Len(seen) : seen[i].type = exc.type}
         IN  IF at = {} THEN Dedup(Tail(all_exceptions), Append(seen, exc))
             ELSE LET i == CHOOSE j \in at : TRUE
                  IN  IF exc.severity > seen[i].severity
                      THEN Dedup(Tail(all_exceptions), [seen EXCEPT ![i] = exc])
                      ELSE Dedup(Tail(all_exceptions), seen)

\* the severity of the first exception instead of the maximum
FirstSeverity(excs) == excs[1].severity

RECURSIVE MaxSeverity(_)
MaxSeverity(excs) ==
    IF Len(excs) = 1 THEN excs[1].severity
    ELSE Max(excs[1].severity, MaxSeverity(Tail(excs)))

\* the pooled output of the seven detectors, in the order they are run
AllExceptions(message, user_context) ==
    LET combined_text == Join(message.subject, message.snippet)
    IN  detect_order_shipping(combined_text)
        \o detect_financial(combined_text)
        \o detect_appointments(combined_text)
        \o detect_travel(combined_text)
        \o detect_security(combined_text)
        \o detect_legal_important(combined_text)
        \o detect_personal_indicators(message, user_context)

detect_exceptions(message, user_context) ==
    LET combined_text == Join(message.subject, message.snippet)
    IN  IF combined_text = <<>>
        THEN [has_exceptions |-> FALSE, exceptions |-> <<>>, exception_score |-> 0]
        ELSE LET all_exceptions == AllExceptions(message, user_context)
                 unique_exceptions == Dedup(all_exceptions, <<>>)
                 exception_score ==
                     IF unique_exceptions # <<>>
                     THEN Min(100, MaxSeverity(unique_exceptions)
                                   + Min(10, (Len(unique_exceptions) - 1) * 5))
                     ELSE 0
             IN  [has_exceptions |-> Len(unique_exceptions) > 0,
                  exceptions |-> unique_exceptions,
                  exception_score |-> exception_score]
----------------------------------------------------------------------------
(* safety_scorer.py *)

\* tokens of the vocabulary that contain one of unsubscribe_patterns
UnsubscribeTokens == { "unsubscribe" }

\* tokens of the vocabulary that one of transactional_patterns matches
TransactionalTokens ==
    { "receipt", "order #12345", "payment", "agreement", "password reset" }

BaseScore == 50

_has_unsubscribe_link(message) ==
    LowerTokens(Join(message.snippet, message.subject)) \cap UnsubscribeTokens # {}

_is_unread_never(message) == FALSE

_is_unread_since_receipt(message) == message.is_unread

_sender_previously_deleted(message, user_context) ==
    Lower(message.sender) \in user_context.deleted_senders

\* age.days of utcnow() - date; 0 when the date is absent
_message_age_days(message, clock) ==
    IF message.date = <<>> THEN 0 ELSE clock - message.date[1]

_user_replied_in_thread(message, user_context) ==
    IF message.thread_id = "" THEN FALSE
    ELSE message.thread_id \in user_context.replied_threads

_is_promotional_classification(message, user_context) ==
    classify_message(message, user_context.user_domain)
        \in {"marketing", "newsletter"}

_is_from_user_domain(message, user_context) ==
    IF user_context.user_domain = "" THEN FALSE
    ELSE Contains(Lower(message.sender), Lower(user_context.user_domain))

_is_starred_or_important(message) ==
    "STARRED" \in message.labels \/ "IMPORTANT" \in message.labels

_is_high_engagement_sender(message, user_context) ==
    Lower(message.sender) \in user_context.high_engagement_senders

_contains_transactional_keywords(message) ==
    LowerTokens(Join(message.subject, message.snippet)) \cap TransactionalTokens # {}

_thread_message_count(message, user_context) ==
    IF message.subject # <<>> /\ Lower(message.subject[1]) \in {"re:", "fwd:"}
    THEN 2 ELSE 1

\* the age bonus of lines 46-49: the elif is reached only when age <= 30
\* both bonuses for a message older than 60 days
AgeBonusStacked(age_days) ==
    IF age_days > 60 THEN 15
    ELSE IF age_days > 30 THEN 10
    ELSE 0

AgeBonusInclusive(age_days) ==
    IF age_days >= 30 THEN 10
    ELSE IF age_days > 60 THEN 5
    ELSE 0

AgeBonus(age_days) ==
    IF age_days > 30 THEN 10
    ELSE IF age_days > 60 THEN 5
    ELSE 0

AttachmentPenaltyNone(message) == 0

\* score -= 30 for a message with attachments (lines 64-65)
AttachmentPenalty(message) == IF message.has_attachments THEN 30 ELSE 0

\* the sum before the clamp (lines 33-83)
RawScore(message, user_context, clock) ==
    LET age_days == _message_age_days(message, clock)
    IN  BaseScore
        + (IF _has_unsubscribe_link(message) THEN 20 ELSE 0)
        + (IF _is_unread_since_receipt(message) THEN 15 ELSE 0)
        + (IF _sender_previously_deleted(message, user_context) THEN 10 ELSE 0)
        + AgeBonus(age_days)
        + (IF ~message.has_attachments THEN 5 ELSE 0)
        + (IF ~_user_replied_in_thread(message, user_context) THEN 5 ELSE 0)
        + (IF _is_promotional_classification(message, user_context) THEN 5 ELSE 0)
        - (IF _user_replied_in_thread(message, user_context) THEN 40 ELSE 0)
        - AttachmentPenalty(message)
        - (IF _is_from_user_domain(message, user_context) THEN 25 ELSE 0)
        - (IF _is_starred_or_important(message) THEN 20 ELSE 0)
        - (IF age_days < 7 THEN 15 ELSE 0)
        - (IF _is_high_engagement_sender(message, user_context) THEN 10 ELSE 0)
        - (IF _contains_transactional_keywords(message) THEN 10 ELSE 0)
        - (IF _thread_message_count(message, user_context) > 1 THEN 5 ELSE 0)

ClampUpperOnly(score) == Min(100, score)

\* max(0, min(100, score))
Clamp(score) == Max(0, Min(100, score))

\* returns a bare int (line 86)
calculate_safety_score(message, user_context, clock) ==
    PyInt(Clamp(RawScore(message, user_context, clock)))

RECURSIVE SumImpacts(_)
SumImpacts(factors) ==
    IF factors = <<>> THEN 0
    ELSE factors[1].impact + SumImpacts(Tail(factors))

Factor(cond, name, impact) ==
    IF cond THEN << [factor |-> name, impact |-> impact] >> ELSE <<>>

\* the factors list of get_score_breakdown (lines 247-298)
BreakdownFactors(message, user_context, clock) ==
    LET age_days == _message_age_days(message, clock)
    IN  Factor(TRUE, "Base score", 50)
        \o Factor(_has_unsubscribe_link(message), "Has unsubscribe link", 20)
        \o Factor(_is_unread_since_receipt(message), "Unread since receipt", 15)
        \o Factor(_sender_previously_deleted(message, user_context),
                  "Sender previously deleted", 10)
        \o Factor(age_days > 30, "Message age", 10)
        \o Factor(~message.has_attachments, "No attachments", 5)
        \o Factor(~_user_replied_in_thread(message, user_context),
                  "No reply in thread", 5)
        \o Factor(_is_promotional_classification(message, user_context),
                  "Promotional classification", 5)
        \o Factor(_user_replied_in_thread(message, user_context),
                  "User replied in thread", -40)
        \o Factor(message.has_attachments, "Has attachments", -30)
        \o Factor(_is_from_user_domain(message, user_context),
                  "From user's domain", -25)
        \o Factor(_is_starred_or_important(message), "Starred or important", -20)
        \o Factor(age_days < 7, "Recent message", -15)
        \o Factor(_is_high_engagement_sender(message, user_context),
                  "High engagement sender", -10)
        \o Factor(_contains_transactional_keywords(message),
                  "Contains transactional keywords", -10)
        \o Factor(_thread_message_count(message, user_context) > 1,
                  "Part of thread", -5)

BreakdownRecord(total_score, factors, message) ==
    PyDict([ score |-> total_score,
             factors |-> factors,
             message_id |-> message.message_id,
             sender |-> message.sender,
             subject |-> message.subject ])

\* a breakdown that totals its own factors instead of calling the scorer
get_score_breakdown_summed(message, user_context, clock) ==
    LET factors == BreakdownFactors(message, user_context, clock)
    IN  BreakdownRecord(PyInt(SumImpacts(factors)), factors, message)

get_score_breakdown(message, user_context, clock) ==
    LET factors == BreakdownFactors(message, user_context, clock)
        total_score == calculate_safety_score(message, user_context, clock)
    IN  BreakdownRecord(total_score, factors, message)

----------------------------------------------------------------------------
(* candidate_finder.py *)

SYSTEM_LABELS ==
    { "INBOX", "UNREAD", "SENT", "DRAFT", "SPAM", "TRASH", "STARRED",
      "IMPORTANT", "CATEGORY_PERSONAL", "CATEGORY_SOCIAL",
      "CATEGORY_PROMOTIONS", "CATEGORY_UPDATES", "CATEGORY_FORUMS" }

\* message.get("labels", []) scanned for a label outside SYSTEM_LABELS
has_user_labels(message) ==
    LET labels == IF "labels" \in DOMAIN message THEN message.labels ELSE {}
    IN  \E label \in labels : label \notin SYSTEM_LABELS

RECURSIVE SelectSeq2(_, _)
SelectSeq2(seq, keep) ==
    IF seq = <<>> THEN <<>>
    ELSE (IF seq[1] \in keep THEN << seq[1] >> ELSE <<>>)
         \o SelectSeq2(Tail(seq), keep)

\* a filter that lets every message through
filter_nothing(messages) == messages

filter_unlabeled_messages(messages) ==
    SelectSeq2(messages, {m \in Range(messages) : ~has_user_labels(m)})

\* in the order of the dict literal
SAFETY_TIERS ==
    << [name |-> "very_safe", min |-> 90, max |-> 100,
        color |-> "green", label |-> "Very Safe"],
       [name |-> "likely_safe", min |-> 70, max |-> 89,
        color |-> "yellow", label |-> "Likely Safe"],
       [name |-> "review", min |-> 50, max |-> 69,
        color |-> "orange", label |-> "Review Carefully"],
       [name |-> "keep", min |-> 0, max |-> 49,
        color |-> "red", label |-> "Keep"] >>

\* SAFETY_TIERS[tier_name]: the stored value, which has no "name" key
TierValue(tier) ==
    [min |-> tier.min, max |-> tier.max, color |-> tier.color, label |-> tier.label]

\* the band test with the upper end left out
get_safety_tier_open(score) ==
    LET hits == {i \in 1..Len(SAFETY_TIERS) :
                    SAFETY_TIERS[i].min <= score /\ score < SAFETY_TIERS[i].max}
    IN  IF hits # {}
        THEN SAFETY_TIERS[CHOOSE i \in hits : \A j \in hits : i <= j]
        ELSE TierValue(SAFETY_TIERS[4])

get_safety_tier(score) ==
    LET hits == {i \in 1..Len(SAFETY_TIERS) :
                    SAFETY_TIERS[i].min <= score /\ score <= SAFETY_TIERS[i].max}
    IN  IF hits # {}
        THEN SAFETY_TIERS[CHOOSE i \in hits : \A j \in hits : i <= j]
        ELSE TierValue(SAFETY_TIERS[4])

\* sorted(candidates, key=score, reverse=True): stable, so an element goes
\* behind every element whose score is at least its own
RECURSIVE InsertByScore(_, _)
InsertByScore(sorted, c) ==
    IF sorted = <<>> THEN << c >>
    ELSE IF sorted[1].score >= c.score
         THEN << sorted[1] >> \o InsertByScore(Tail(sorted), c)
         ELSE << c >> \o sorted

RECURSIVE SortedByScore(_, _)
SortedByScore(candidates, acc) ==
    IF candidates = <<>> THEN acc
    ELSE SortedByScore(Tail(candidates), InsertByScore(acc, candidates[1]))

Candidate(msg, score, score_result, include_breakdown, user_context, clock) ==
    LET base == [ message_id |-> msg.message_id,
                  thread_id |-> msg.thread_id,
                  sender |-> msg.sender,
                  subject |-> msg.subject,
                  date |-> msg.date,
                  snippet |-> msg.snippet,
                  score |-> score,
                  tier |-> get_safety_tier(score),
                  is_unread |-> msg.is_unread,
                  has_attachments |-> msg.has_attachments,
                  labels |-> msg.labels,
                  exceptions |-> DictGet(score_result.value, "exceptions", <<>>),
                  has_exceptions |->
                      DictGet(score_result.value, "has_exceptions", FALSE) ]
    IN  IF include_breakdown
        THEN [ k \in DOMAIN base \cup {"breakdown"} |->
                 IF k = "breakdown"
                 THEN get_score_breakdown(msg, user_context, clock)
                 ELSE base[k] ]
        ELSE base

\* the loop of lines 120-148 from position i on; scored lists the messages
\* handed to the scorer so far
RECURSIVE FindLoop(_, _, _, _, _, _, _, _, _)
FindLoop(unlabeled, i, candidates, scored, user_context, min_score, include_breakdown, exclude_exceptions, clock) ==
    IF i > Len(unlabeled)
    THEN [outcome |-> "return", value |-> SortedByScore(candidates, <<>>),
          scored |-> scored]
    ELSE LET msg == unlabeled[i]
             score_result == calculate_safety_score(msg, user_context, clock)
             scored2 == Append(scored, msg)
         IN  IF score_result.type # "dict"
             THEN \* score_result["score"] on an int
                  [outcome |-> "raise", value |-> "TypeError", scored |-> scored2]
             ELSE LET score == score_result.value.score
                  IN  IF exclude_exceptions
                         /\ DictGet(score_result.value, "has_exceptions", FALSE)
                      THEN FindLoop(unlabeled, i + 1, candidates, scored2,
                                    user_context, min_score, include_breakdown,
                                    exclude_exceptions, clock)
                      ELSE FindLoop(unlabeled, i + 1,
                                    IF score >= min_score
                                    THEN Append(candidates,
                                                Candidate(msg, score, score_result,
                                                          include_breakdown,
                                                          user_context, clock))
                                    ELSE candidates,
                                    scored2, user_context, min_score,
                                    include_breakdown, exclude_exceptions, clock)

find_deletion_candidates(messages, user_context, min_score, include_breakdown, exclude_exceptions, clock) ==
    FindLoop(filter_unlabeled_messages(messages), 1, <<>>, <<>>, user_context,
             min_score, include_breakdown, exclude_exceptions, clock)

\* the names of SAFETY_TIERS
TierNames == {SAFETY_TIERS[i].name : i \in 1..Len(SAFETY_TIERS)}

\* the loop of lines 207-214 from position i on
RECURSIVE SummaryLoop(_, _, _, _, _, _)
SummaryLoop(unlabeled, i, tier_counts, exceptions_count, user_context, clock) ==
    IF i > Len(unlabeled)
    THEN [outcome |-> "return", tier_counts |-> tier_counts,
          exceptions_count |-> exceptions_count]
    ELSE LET score_result == calculate_safety_score(unlabeled[i], user_context, clock)
         IN  IF score_result.type # "dict"
             THEN \* score_result["score"] on an int
                  [outcome |-> "raise", value |-> "TypeError"]
             ELSE LET tier == get_safety_tier(score_result.value.score)
                  IN  IF "name" \notin DOMAIN tier
                      THEN [outcome |-> "raise", value |-> "KeyError"]
                      ELSE SummaryLoop(unlabeled, i + 1,
                               [tier_counts EXCEPT ![tier.name] = @ + 1],
                               IF DictGet(score_result.value, "has_exceptions", FALSE)
                               THEN exceptions_count + 1 ELSE exceptions_count,
                               user_context, clock)

get_deletion_summary(messages, user_context, clock) ==
    LET unlabeled == filter_unlabeled_messages(messages)
        run == SummaryLoop(unlabeled, 1, [t \in TierNames |-> 0], 0,
                           user_context, clock)
    IN  IF run.outcome = "raise" THEN run
        ELSE Returned([ total_messages |-> Len(messages),
                        unlabeled_count |-> Len(unlabeled),
                        tier_counts |-> run.tier_counts,
                        deletable |-> run.tier_counts["very_safe"]
                                      + run.tier_counts["likely_safe"],
                        needs_review |-> run.tier_counts["review"],
                        keep |-> run.tier_counts["keep"],
                        exceptions_count |-> run.exceptions_count ])
----------------------------------------------------------------------------
(* fetcher/cache.py: the messages table, keyed by message_id *)

\* INSERT OR REPLACE of every message of the list
CacheInsert(rows, ids) == rows \cup Range(ids)

\* DELETE ... WHERE message_id IN (ids); returns the row count
CacheDelete(rows, ids) ==
    [ rows |-> rows \ Range(ids),
      rowcount |-> Cardinality(rows \cap Range(ids)) ]

\* the messages table as the set of its rows, for the calls on the cache
\* itself: a row is a message, message_id is the primary key

InsertKeepingOld(table, row) == table \cup {row}

\* INSERT OR REPLACE: a row with the same message_id gives way to the new one
InsertOrReplace(table, row) ==
    {r \in table : r.message_id # row.message_id} \cup {row}

\* MessageCache.cache_messages: every message of the list in turn; returns
\* len(messages)
RECURSIVE InsertAll(_, _)
InsertAll(table, messages) ==
    IF messages = <<>> THEN table
    ELSE InsertAll(InsertOrReplace(table, messages[1]), Tail(messages))

MessageCache_cache_messages(table, messages) ==
    [table |-> InsertAll(table, messages), value |-> Len(messages)]

\* MessageCache.delete_messages: returns cursor.rowcount
MessageCache_delete_messages(table, message_ids) ==
    LET hit == {r \in table : r.message_id \in Range(message_ids)}
    IN  [table |-> table \ hit, value |-> Cardinality(hit)]

\* SELECT COUNT(*) FROM messages
MessageCache_get_message_count(table) == Cardinality(table)


\* MessageCache.is_fresh: a last_fetch younger than max_age_hours; the cache
\* keeps the age of last_fetch in whole hours, <<>> while there is none
max_age_hours == 1

MessageCache_is_fresh(c) ==
    c.last_fetch # <<>> /\ c.last_fetch[1] < max_age_hours

\* ORDER BY date DESC
RECURSIVE OrderByDateDesc(_)
OrderByDateDesc(rows) ==
    IF rows = {} THEN <<>>
    ELSE LET r == CHOOSE r \in rows : \A q \in rows : q.date <= r.date
         IN  <<r>> \o OrderByDateDesc(rows \ {r})

\* MessageCache.get_cached_messages: a since_days of 0 is no filter
MessageCache_get_cached_messages(table, since_days, today) ==
    IF since_days # 0
    THEN OrderByDateDesc({r \in table : r.date >= today - since_days})
    ELSE OrderByDateDesc(table)

\* MessageCache.clear_messages: DELETE FROM messages, last_fetch stays
MessageCache_clear_messages(c) == [c EXCEPT !.messages = {}]

----------------------------------------------------------------------------
(* fetcher/messages.py *)

max_retries == 5

\* the default batch_size of _fetch_message_batch
batch_size == 100

\* what the provider answers to a request: the resource, HTTP 429, or any
\* other HttpError
Responses == {"ok", "429", "error"}

\* the answer to the n-th request of its kind; past the script all succeed
ResponseAt(responses, n) ==
    IF n \in DOMAIN responses THEN responses[n] ELSE "ok"

\* the Date header of the provider's messages, in days
MailDate(id) == IF id = "m1" THEN Today - 1 ELSE Today - 50

\* extract_message_metadata: the fields the cache keys and filters on
extract_message_metadata(id) == [message_id |-> id, date |-> MailDate(id)]

\* the while loop of _fetch_message_batch for one reference; st carries the
\* messages so far, the retries counter of the whole call, the provider log
\* and the number of get requests made
RECURSIVE GetWithRetries(_, _, _, _)
GetWithRetries(ref, pos, responses, st) ==
    IF ~(st.retries < max_retries) THEN st
    ELSE LET r == ResponseAt(responses, st.used + 1)
             asked == [st EXCEPT
                         !.used = st.used + 1,
                         !.calls = Append(st.calls,
                                     [api |-> "get", id |-> ref, pos |-> pos,
                                      response |-> r])]
         IN  CASE r = "ok" ->
                    [asked EXCEPT
                        !.messages = Append(st.messages,
                                            extract_message_metadata(ref)),
                        !.retries = 0]
               [] r = "429" ->
                    GetWithRetries(ref, pos, responses,
                                   [asked EXCEPT !.retries = st.retries + 1])
               [] OTHER -> asked

\* for ref in batch_refs, from the j-th reference of the batch starting at i
RECURSIVE BatchRefs(_, _, _, _, _)
BatchRefs(batch_refs, i, j, responses, st) ==
    IF j > Len(batch_refs) THEN st
    ELSE BatchRefs(batch_refs, i, j + 1, responses,
                   GetWithRetries(batch_refs[j], i + j, responses, st))

\* for i in range(0, len(message_refs), size)
RECURSIVE Batches(_, _, _, _, _)
Batches(message_refs, i, size, responses, st) ==
    IF i >= Len(message_refs) THEN st
    ELSE LET batch_refs == SubSeq(message_refs, i + 1,
                                  Min(i + size, Len(message_refs)))
         IN  Batches(message_refs, i + size, size, responses,
                     BatchRefs(batch_refs, i, 1, responses, st))

\* _fetch_message_batch: the messages fetched, the get requests made, and
\* the number of get requests made so far
_fetch_message_batch(message_refs, size, responses, used) ==
    Batches(message_refs, 0, size, responses,
            [messages |-> <<>>, retries |-> 0, calls |-> <<>>, used |-> used])

\* the while True loop of fetch_messages from page p on; pages is what the
\* provider lists, a page at a time
RECURSIVE ListLoop(_, _, _, _, _)
ListLoop(pages, p, list_responses, get_responses, st) ==
    LET r == ResponseAt(list_responses, st.lists + 1)
        asked == [st EXCEPT
                    !.lists = st.lists + 1,
                    !.calls = Append(st.calls,
                                [api |-> "list", id |-> "", pos |-> p,
                                 response |-> r])]
    IN  CASE r = "429" ->
               ListLoop(pages, p, list_responses, get_responses, asked)
          [] r = "error" -> [asked EXCEPT !.raised = TRUE]
          [] OTHER ->
               LET message_refs == IF p <= Len(pages) THEN pages[p] ELSE <<>>
               IN  IF message_refs = <<>> THEN asked
                   ELSE LET batch == _fetch_message_batch(message_refs,
                                         batch_size, get_responses, st.used)
                            fetched ==
                              [asked EXCEPT
                                  !.messages = st.messages \o batch.messages,
                                  !.calls = asked.calls \o batch.calls,
                                  !.used = batch.used]
                        IN  IF p < Len(pages)
                            THEN ListLoop(pages, p + 1, list_responses,
                                          get_responses, fetched)
                            ELSE fetched

\* fetch_messages: the outcome, the cache and the provider log of one call;
\* labels_ok says whether fetch_labels gets its labels().list() answered
fetch_messages(days, service_given, use_cache, c, today, labels_ok, pages, list_responses, get_responses) ==
    LET cached == MessageCache_get_cached_messages(c.messages, days, today)
    IN  IF use_cache /\ MessageCache_is_fresh(c) /\ cached # <<>>
        THEN [result |-> Returned(cached), cache |-> c, calls |-> <<>>]
        ELSE
          LET cleared == MessageCache_clear_messages(c)
              build == IF service_given THEN <<>>
                       ELSE << [api |-> "get_gmail_service", id |-> "",
                                pos |-> 0, response |-> "ok"] >>
              labels == Append(build,
                          [api |-> "labels.list", id |-> "", pos |-> 0,
                           response |-> IF labels_ok THEN "ok" ELSE "error"])
          IN  IF ~labels_ok
              THEN [result |-> [outcome |-> "raise", value |-> "HttpError"],
                    cache |-> cleared, calls |-> labels]
              ELSE
                LET run == ListLoop(pages, 1, list_responses, get_responses,
                                    [messages |-> <<>>, calls |-> labels,
                                     lists |-> 0, used |-> 0, raised |-> FALSE])
                IN  IF run.raised
                    THEN [result |-> [outcome |-> "raise", value |-> "HttpError"],
                          cache |-> cleared, calls |-> run.calls]
                    ELSE [result |-> Returned(run.messages),
                          cache |-> [messages |-> InsertAll(cleared.messages,
                                                            run.messages),
                                     last_fetch |-> <<0>>],
                          calls |-> run.calls]

----------------------------------------------------------------------------
(* fetcher/label_ops.py *)

\* batch_size of merge_labels
merge_batch_size == 100

\* the while True loop of merge_labels from page p on: the ids listed under
\* the source label, or the HttpError of the request numbered list_fail_at
RECURSIVE MergeListLoop(_, _, _, _, _, _)
MergeListLoop(source_label_id, pages, p, list_fail_at, message_ids, calls) ==
    LET failed == p = list_fail_at
        asked == Append(calls, [api |-> "list", label |-> source_label_id,
                                ids |-> <<>>,
                                response |-> IF failed THEN "error" ELSE "ok"])
    IN  IF failed
        THEN [raised |-> TRUE, message_ids |-> message_ids, calls |-> asked]
        ELSE LET messages == IF p <= Len(pages) THEN pages[p] ELSE <<>>
                 listed == message_ids \o messages
             IN  IF p < Len(pages)
                 THEN MergeListLoop(source_label_id, pages, p + 1, list_fail_at,
                                    listed, asked)
                 ELSE [raised |-> FALSE, message_ids |-> listed, calls |-> asked]

\* the batchModify loop from offset i on; batch_fails holds the offsets of
\* the batches the provider answers with an HttpError
RECURSIVE ModifyLoop(_, _, _, _, _)
ModifyLoop(message_ids, i, batch_fails, labels, st) ==
    IF i >= Len(message_ids) THEN st
    ELSE LET batch == SubSeq(message_ids, i + 1,
                             Min(i + merge_batch_size, Len(message_ids)))
             failed == i \in batch_fails
             asked == Append(st.calls,
                        [api |-> "batchModify", label |-> labels.target,
                         ids |-> batch,
                         response |-> IF failed THEN "error" ELSE "ok"])
         IN  ModifyLoop(message_ids, i + merge_batch_size, batch_fails, labels,
                IF failed
                THEN [st EXCEPT !.calls = asked,
                                !.errors = Append(st.errors,
                                             [batch_start |-> i,
                                              error |-> "HttpError"])]
                ELSE [st EXCEPT !.calls = asked,
                                !.modified_count = st.modified_count + Len(batch)])

\* the source label is deleted whenever asked for
DeletesSourceWhenAsked(delete_source, errors) == delete_source

\* line 114: delete_source and not errors
DeletesSource(delete_source, errors) == delete_source /\ errors = <<>>

\* errors if errors else None
ErrorsOrNone(errors) == IF errors = <<>> THEN "None" ELSE errors

\* merge_labels: the result dict and the provider log of one call
merge_labels(source_label_id, target_label_id, delete_source, service_given, pages, list_fail_at, batch_fails, delete_fails) ==
    LET build == IF service_given THEN <<>>
                 ELSE << [api |-> "get_gmail_service", label |-> "",
                          ids |-> <<>>, response |-> "ok"] >>
        listing == MergeListLoop(source_label_id, pages, 1, list_fail_at,
                                 <<>>, build)
    IN  IF listing.raised
        THEN [result |-> [success |-> FALSE, error |-> "HttpError",
                          messages_modified |-> 0],
              calls |-> listing.calls]
        ELSE IF listing.message_ids = <<>>
        THEN [result |-> [success |-> TRUE, messages_modified |-> 0,
                          source_deleted |-> FALSE,
                          message |-> "No messages found with source label"],
              calls |-> listing.calls]
        ELSE
          LET run == ModifyLoop(listing.message_ids, 0, batch_fails,
                                [source |-> source_label_id,
                                 target |-> target_label_id],
                                [modified_count |-> 0, errors |-> <<>>,
                                 calls |-> listing.calls])
              deletes == DeletesSource(delete_source, run.errors)
              calls2 == IF deletes
                        THEN Append(run.calls,
                               [api |-> "labels.delete",
                                label |-> source_label_id, ids |-> <<>>,
                                response |-> IF delete_fails THEN "error"
                                             ELSE "ok"])
                        ELSE run.calls
              errors2 == IF deletes /\ delete_fails
                         THEN Append(run.errors, [action |-> "delete_label",
                                                  error |-> "HttpError"])
                         ELSE run.errors
          IN  [result |-> [success |-> Len(errors2) = 0,
                           messages_modified |-> run.modified_count,
                           total_messages |-> Len(listing.message_ids),
                           source_deleted |-> deletes /\ ~delete_fails,
                           errors |-> ErrorsOrNone(errors2)],
               calls |-> calls2]

----------------------------------------------------------------------------
(* smart_delete/executor.py *)

\* a service is built whenever none was passed
NeedsServiceAlways(service_given, dry_run) == ~service_given

\* lines 44-45: a service is built only for a real run without one
NeedsService(service_given, dry_run) == ~service_given /\ ~dry_run

\* the loop of lines 56-81 from position i on; fails is the set of positions
\* at which the provider's trash call raises
RECURSIVE DeleteLoop(_, _, _, _, _, _, _)
DeleteLoop(message_ids, i, dry_run, fails, deleted, errors, calls) ==
    IF i > Len(message_ids)
    THEN [deleted |-> deleted, errors |-> errors, calls |-> calls]
    ELSE IF dry_run
    THEN DeleteLoop(message_ids, i + 1, dry_run, fails, deleted + 1, errors, calls)
    ELSE LET trash == [api |-> "trash", id |-> message_ids[i]]
         IN  IF i \in fails
             THEN DeleteLoop(message_ids, i + 1, dry_run, fails, deleted,
                             Append(errors, [message_id |-> message_ids[i],
                                             error |-> "HttpError"]),
                             Append(calls, trash))
             ELSE DeleteLoop(message_ids, i + 1, dry_run, fails, deleted + 1,
                             errors, Append(calls, trash))

\* the length to which the errors of the response are cut
ErrorCap == 10

ErrorsReturnedAll(errors) == errors

\* errors[:10] (line 101)
ErrorsReturned(errors) == SubSeq(errors, 1, Min(ErrorCap, Len(errors)))

SuccessfullyDeletedAll(message_ids, errors) == message_ids

\* lines 89-93: the ids of the call that are the id of no error
SuccessfullyDeleted(message_ids, errors) ==
    LET error_ids == {errors[k].message_id : k \in 1..Len(errors)}
    IN  SelectSeq2(message_ids, Range(message_ids) \ error_ids)

\* the result dict, the cache rows and the provider calls of one call
delete_messages(message_ids, service_given, dry_run, fails, rows) ==
    IF message_ids = <<>>
    THEN [ result |-> [success |-> TRUE, deleted |-> 0, failed |-> 0,
                       dry_run |-> dry_run, errors |-> <<>>],
           rows |-> rows,
           calls |-> <<>> ]
    ELSE LET build == IF NeedsService(service_given, dry_run)
                      THEN << [api |-> "get_gmail_service", id |-> ""] >>
                      ELSE <<>>
             run == DeleteLoop(message_ids, 1, dry_run, fails, 0, <<>>, build)
             failed == Len(run.errors)
             successfully_deleted == SuccessfullyDeleted(message_ids, run.errors)
             rows2 == IF run.deleted > 0
                      THEN CacheDelete(rows, successfully_deleted).rows
                      ELSE rows
         IN  [ result |-> [success |-> failed = 0,
                           deleted |-> run.deleted,
                           failed |-> failed,
                           dry_run |-> dry_run,
                           errors |-> ErrorsReturned(run.errors),
                           total_errors |-> Len(run.errors)],
               rows |-> rows2,
               calls |-> run.calls ]


\* no call is refused
RefusesNever(confirm, dry_run) == FALSE

\* line 138: a real run without confirm is refused
RefusesUnconfirmed(confirm, dry_run) == ~confirm /\ ~dry_run

\* the loop of lines 165-184 of permanently_delete_messages from position i
\* on; fails is the set of positions at which the provider's delete raises
RECURSIVE PermanentLoop(_, _, _, _, _, _, _)
PermanentLoop(message_ids, i, dry_run, fails, deleted, errors, calls) ==
    IF i > Len(message_ids)
    THEN [deleted |-> deleted, errors |-> errors, calls |-> calls]
    ELSE IF dry_run
    THEN PermanentLoop(message_ids, i + 1, dry_run, fails, deleted + 1, errors, calls)
    ELSE LET delete == [api |-> "delete", id |-> message_ids[i]]
         IN  IF i \in fails
             THEN PermanentLoop(message_ids, i + 1, dry_run, fails, deleted,
                                Append(errors, [message_id |-> message_ids[i],
                                                error |-> "HttpError"]),
                                Append(calls, delete))
             ELSE PermanentLoop(message_ids, i + 1, dry_run, fails, deleted + 1,
                                errors, Append(calls, delete))

\* the result dict, the cache rows and the provider calls of one call
permanently_delete_messages(message_ids, service_given, dry_run, confirm, fails, rows) ==
    IF RefusesUnconfirmed(confirm, dry_run)
    THEN [ result |-> [success |-> FALSE, deleted |-> 0, failed |-> 0,
                       dry_run |-> dry_run,
                       error |-> "Permanent deletion requires confirm=True"],
           rows |-> rows,
           calls |-> <<>> ]
    ELSE IF message_ids = <<>>
    THEN [ result |-> [success |-> TRUE, deleted |-> 0, failed |-> 0,
                       dry_run |-> dry_run, errors |-> <<>>],
           rows |-> rows,
           calls |-> <<>> ]
    ELSE LET build == IF NeedsService(service_given, dry_run)
                      THEN << [api |-> "get_gmail_service", id |-> ""] >>
                      ELSE <<>>
             run == PermanentLoop(message_ids, 1, dry_run, fails, 0, <<>>, build)
             failed == Len(run.errors)
             successfully_deleted == SuccessfullyDeleted(message_ids, run.errors)
             rows2 == IF run.deleted > 0
                      THEN CacheDelete(rows, successfully_deleted).rows
                      ELSE rows
         IN  [ result |-> [success |-> failed = 0,
                           deleted |-> run.deleted,
                           failed |-> failed,
                           dry_run |-> dry_run,
                           permanent |-> TRUE,
                           errors |-> ErrorsReturned(run.errors),
                           total_errors |-> Len(run.errors)],
               rows |-> rows2,
               calls |-> run.calls ]

----------------------------------------------------------------------------
(* Spec: the mailbox, the cache, the provider and the entry points called   *)
(* on them. An entry point runs to completion in one step (pc = "done"),   *)
(* and its caller then takes the result (Return).                          *)

NoCall == [op |-> "none"]
NoResult == [outcome |-> "none"]

Mailbox ==
    [ id \in MsgIds |->
        CASE id = "m1" ->
               [ message_id |-> "m1", thread_id |-> "", date |-> <<Today - 61>>,
                 sender |-> "Promo@Marketing.com", subject |-> <<"sale">>,
                 snippet |-> <<"unsubscribe">>, labels |-> {"INBOX"},
                 is_unread |-> TRUE, has_attachments |-> FALSE ]
          [] id = "m2" ->
               [ message_id |-> "m2", thread_id |-> "", date |-> <<Today - 61>>,
                 sender |-> "Promo@Marketing.com", subject |-> <<"sale">>,
                 snippet |-> <<"1Z999AA10123456784">>, labels |-> {},
                 is_unread |-> TRUE, has_attachments |-> FALSE ]
          [] id = "m3" ->
               [ message_id |-> "m3", thread_id |-> "", date |-> <<Today - 61>>,
                 sender |-> "Promo@Marketing.com", subject |-> <<"sale">>,
                 snippet |-> <<"unsubscribe">>, labels |-> {"INBOX", "Work"},
                 is_unread |-> TRUE, has_attachments |-> FALSE ]
          [] id = "m4" ->
               [ message_id |-> "m4", thread_id |-> "t1", date |-> <<Today - 6>>,
                 sender |-> "boss@mycompany.com", subject |-> <<"Re:", "receipt">>,
                 snippet |-> <<"$150.00">>, labels |-> {"INBOX", "STARRED"},
                 is_unread |-> FALSE, has_attachments |-> TRUE ]
          [] OTHER ->
               [ message_id |-> "m5", thread_id |-> "", date |-> <<>>,
                 sender |-> "", subject |-> <<>>, snippet |-> <<>>,
                 labels |-> {}, is_unread |-> FALSE, has_attachments |-> FALSE ] ]

\* the sequences over S of length at most n
SeqsUpTo(S, n) == UNION { [1..k -> S] : k \in 0..n }

NoContext ==
    [ user_domain |-> "", deleted_senders |-> {}, replied_threads |-> {},
      high_engagement_senders |-> {} ]

WorkContext ==
    [ user_domain |-> "mycompany.com", deleted_senders |-> {"promo@marketing.com"},
      replied_threads |-> {"t1"}, high_engagement_senders |-> {} ]

MinScores == { 0, 50, 80 }

\* a list one longer than the error cap, over two ids
LongIdLists ==
    { [k \in 1..(ErrorCap + 1) |-> IF k % 2 = 1 THEN "m1" ELSE "m2"] }

\* the positions at which the provider's trash call raises: any set for a
\* short list, a leading or a trailing run of positions for a long one
FailPatterns(message_ids) ==
    LET n == Len(message_ids)
    IN  IF n <= MaxIds THEN SUBSET (1..n)
        ELSE {1..j : j \in 0..n} \cup {j..n : j \in 1..n}

Init ==
    /\ pc = "idle"
    /\ now = Today
    /\ cache = {}
    /\ provider = <<>>
    /\ call = NoCall
    /\ result = NoResult

Tick ==
    /\ pc = "idle"
    /\ now < Today + MaxTicks
    /\ now' = now + 1
    /\ UNCHANGED <<pc, cache, provider, call, result>>

CacheMessages ==
    /\ pc = "idle"
    /\ \E ids \in SeqsUpTo(MsgIds, 1) \ {<<>>} :
          /\ cache' = CacheInsert(cache, ids)
          /\ cache' # cache
    /\ UNCHANGED <<pc, now, provider, call, result>>

FindDeletionCandidates ==
    /\ pc = "idle"
    /\ \E ids \in SeqsUpTo(MsgIds, MaxMsgs),
          ctx \in {NoContext, WorkContext},
          min_score \in MinScores,
          include_breakdown \in BOOLEAN,
          exclude_exceptions \in BOOLEAN :
          LET messages == [k \in 1..Len(ids) |-> Mailbox[ids[k]]]
          IN  /\ call' = [ op |-> "find_deletion_candidates",
                           messages |-> messages,
                           user_context |-> ctx,
                           min_score |-> min_score,
                           include_breakdown |-> include_breakdown,
                           exclude_exceptions |-> exclude_exceptions ]
              /\ result' = find_deletion_candidates(messages, ctx, min_score,
                               include_breakdown, exclude_exceptions, now)
    /\ pc' = "done"
    /\ UNCHANGED <<now, cache, provider>>

GetDeletionSummary ==
    /\ pc = "idle"
    /\ \E ids \in SeqsUpTo(MsgIds, MaxMsgs), ctx \in {NoContext, WorkContext} :
          LET messages == [k \in 1..Len(ids) |-> Mailbox[ids[k]]]
          IN  /\ call' = [ op |-> "get_deletion_summary",
                           messages |-> messages, user_context |-> ctx ]
              /\ result' = get_deletion_summary(messages, ctx, now)
    /\ pc' = "done"
    /\ UNCHANGED <<now, cache, provider>>

GetSafetyTier ==
    /\ pc = "idle"
    /\ \E score \in (0 - MaxOutside)..(100 + MaxOutside) :
          /\ call' = [op |-> "get_safety_tier", score |-> score]
          /\ result' = Returned(get_safety_tier(score))
    /\ pc' = "done"
    /\ UNCHANGED <<now, cache, provider>>

\* labels a message can carry: system labels, a category label that
\* SYSTEM_LABELS does not list, and a label the user made
LabelUniverse == { "INBOX", "CATEGORY_SOCIAL", "CATEGORY_PURCHASES", "Work" }

\* messages as has_user_labels sees them, with and without a labels field
LabelledMessages ==
    { [message_id |-> "m1"] }
       \cup { [message_id |-> "m1", labels |-> ls] : ls \in SUBSET LabelUniverse }

HasUserLabels ==
    /\ pc = "idle"
    /\ \E message \in LabelledMessages :
          /\ call' = [op |-> "has_user_labels", message |-> message]
          /\ result' = Returned(has_user_labels(message))
    /\ pc' = "done"
    /\ UNCHANGED <<now, cache, provider>>

DeleteMessages ==
    /\ pc = "idle"
    /\ \E message_ids \in SeqsUpTo(MsgIds, MaxIds) \cup LongIdLists,
          service_given \in BOOLEAN,
          dry_run \in BOOLEAN :
       \E fails \in FailPatterns(message_ids) :
          LET run == delete_messages(message_ids, service_given, dry_run,
                                     fails, cache)
          IN  /\ (dry_run => fails = {})
              /\ call' = [ op |-> "delete_messages",
                           message_ids |-> message_ids,
                           service_given |-> service_given,
                           dry_run |-> dry_run,
                           fails |-> fails,
                           cache_before |-> cache ]
              /\ result' = Returned(run.result)
              /\ cache' = run.rows
              /\ provider' = run.calls
    /\ pc' = "done"
    /\ UNCHANGED now

\* the provider's delete can only raise where it is called
PermanentlyDeleteMessages ==
    /\ pc = "idle"
    /\ \E message_ids \in SeqsUpTo({"m1", "m2"}, MaxIds),
          service_given \in BOOLEAN,
          dry_run \in BOOLEAN,
          confirm \in BOOLEAN :
       \E fails \in SUBSET (1..Len(message_ids)) :
          LET run == permanently_delete_messages(message_ids, service_given,
                                                 dry_run, confirm, fails, cache)
          IN  /\ ((dry_run \/ ~confirm) => fails = {})
              /\ call' = [ op |-> "permanently_delete_messages",
                           message_ids |-> message_ids,
                           service_given |-> service_given,
                           dry_run |-> dry_run,
                           confirm |-> confirm,
                           fails |-> fails,
                           cache_before |-> cache ]
              /\ result' = Returned(run.result)
              /\ cache' = run.rows
              /\ provider' = run.calls
    /\ pc' = "done"
    /\ UNCHANGED now

Return ==
    /\ pc = "done"
    /\ pc' = "idle"
    /\ call' = NoCall
    /\ result' = NoResult
    /\ provider' = <<>>
    /\ UNCHANGED <<now, cache>>

Next ==
    \/ Tick
    \/ CacheMessages
    \/ FindDeletionCandidates
    \/ GetDeletionSummary
    \/ GetSafetyTier
    \/ HasUserLabels
    \/ DeleteMessages
    \/ PermanentlyDeleteMessages
    \/ Return

Spec == Init /\ [][Next]_vars
----------------------------------------------------------------------------
(* SpecScore: the scorer as a pure function. Init draws a message and a     *)
(* context; each action applies one entry point to them.                   *)

InitScore ==
    /\ pc = "idle"
    /\ now \in Today..(Today + MaxTicks)
    /\ cache = {}
    /\ provider = <<>>
    /\ \E m \in Messages, ctx \in Contexts :
          call = [op |-> "input", message |-> m, user_context |-> ctx]
    /\ result = NoResult

CalculateSafetyScore ==
    /\ pc = "idle"
    /\ pc' = "done"
    /\ call' = [call EXCEPT !.op = "calculate_safety_score"]
    /\ result' = Returned(calculate_safety_score(call.message, call.user_context, now))
    /\ UNCHANGED <<now, cache, provider>>

GetScoreBreakdown ==
    /\ pc = "idle"
    /\ pc' = "done"
    /\ call' = [call EXCEPT !.op = "get_score_breakdown"]
    /\ result' = Returned(get_score_breakdown(call.message, call.user_context, now))
    /\ UNCHANGED <<now, cache, provider>>

NextScore ==
    \/ CalculateSafetyScore
    \/ GetScoreBreakdown

SpecScore == InitScore /\ [][NextScore]_vars
----------------------------------------------------------------------------
(* SpecClock: calculate_safety_score called twice on the same arguments    *)
(* while the clock _message_age_days reads moves on.                       *)

\* dates just below the ages at which the age rules change
ClockDates == { <<>>, <<Today - 6>>, <<Today - 29>>, <<Today - 30>>, <<Today - 60>> }

ClockMessages ==
    [ message_id : {"m1"}, thread_id : {""}, date : ClockDates,
      sender : Senders, subject : {<<>>}, snippet : {<<>>},
      labels : LabelSets, is_unread : BOOLEAN, has_attachments : BOOLEAN ]

InitClock ==
    /\ pc = "idle"
    /\ now = Today
    /\ cache = {}
    /\ provider = <<>>
    /\ \E m \in ClockMessages, ctx \in Contexts :
          call = [op |-> "input", message |-> m, user_context |-> ctx]
    /\ result = NoResult

\* datetime.utcnow() advances before or between the calls
ClockTick ==
    /\ pc \in {"idle", "first"}
    /\ now < Today + MaxTicks
    /\ now' = now + 1
    /\ UNCHANGED <<pc, cache, provider, call, result>>

FirstCall ==
    /\ pc = "idle"
    /\ pc' = "first"
    /\ call' = [ op |-> "calculate_safety_score", message |-> call.message,
                 user_context |-> call.user_context, clock |-> now ]
    /\ result' = Returned(calculate_safety_score(call.message, call.user_context, now))
    /\ UNCHANGED <<now, cache, provider>>

\* the same arguments again; the first call and its result are kept in call
SecondCall ==
    /\ pc = "first"
    /\ pc' = "second"
    /\ call' = [ op |-> "calculate_safety_score", message |-> call.message,
                 user_context |-> call.user_context, clock |-> now,
                 first |-> [clock |-> call.clock, result |-> result] ]
    /\ result' = Returned(calculate_safety_score(call.message, call.user_context, now))
    /\ UNCHANGED <<now, cache, provider>>

NextClock ==
    \/ ClockTick
    \/ FirstCall
    \/ SecondCall

SpecClock == InitClock /\ [][NextClock]_vars
----------------------------------------------------------------------------
(* SpecDetect: detect_exceptions as a pure function of a message and a      *)
(* user context.                                                           *)

DetectSubjects ==
    { <<>>, <<"appointment">>, <<"flight">>, <<"agreement", "deadline">>,
      <<"payment">>, <<"John">> }

DetectSnippets ==
    { <<>>, <<"3:30 PM">>, <<"ABC123">>, <<"UA123">>,
      <<"order #12345", "account ending in 1234">>,
      <<"1Z999AA10123456784", "agreement">>, <<"$150.00", "due date">>,
      <<"password reset">>, <<"deadline">> }

DetectMessages ==
    [ message_id : {"m1"}, sender : Senders, subject : DetectSubjects,
      snippet : DetectSnippets, has_attachments : BOOLEAN ]

\* user_context = None or {}
EmptyContext == [k \in {} |-> {}]

DetectContexts ==
    { EmptyContext,
      [replied_senders |-> {"promo@marketing.com"}, important_names |-> <<>>],
      [replied_senders |-> {}, important_names |-> <<"John">>],
      [replied_senders |-> {"boss@mycompany.com"}, important_names |-> <<"John">>] }

InitDetect ==
    /\ pc = "idle"
    /\ now = Today
    /\ cache = {}
    /\ provider = <<>>
    /\ \E m \in DetectMessages, ctx \in DetectContexts :
          call = [op |-> "input", message |-> m, user_context |-> ctx]
    /\ result = NoResult

DetectExceptions ==
    /\ pc = "idle"
    /\ pc' = "done"
    /\ call' = [call EXCEPT !.op = "detect_exceptions"]
    /\ result' = Returned(detect_exceptions(call.message, call.user_context))
    /\ UNCHANGED <<now, cache, provider>>

NextDetect == DetectExceptions

SpecDetect == InitDetect /\ [][NextDetect]_vars
----------------------------------------------------------------------------
(* SpecCache: calls on MessageCache itself; cache is the messages table as  *)
(* a set of rows.                                                          *)

CacheRows == [ message_id : {"m1", "m2"}, is_unread : BOOLEAN ]

InitCache ==
    /\ pc = "idle"
    /\ now = Today
    /\ cache = {}
    /\ provider = <<>>
    /\ call = NoCall
    /\ result = NoResult

CacheCacheMessages ==
    /\ pc = "idle"
    /\ \E messages \in SeqsUpTo(CacheRows, MaxMsgs) :
          LET run == MessageCache_cache_messages(cache, messages)
          IN  /\ call' = [ op |-> "MessageCache.cache_messages",
                           messages |-> messages, table_before |-> cache ]
              /\ cache' = run.table
              /\ result' = Returned(run.value)
    /\ pc' = "done"
    /\ UNCHANGED <<now, provider>>

CacheDeleteMessages ==
    /\ pc = "idle"
    /\ \E message_ids \in SeqsUpTo({"m1", "m2", "m3"}, MaxIds) :
          LET run == MessageCache_delete_messages(cache, message_ids)
          IN  /\ call' = [ op |-> "MessageCache.delete_messages",
                           message_ids |-> message_ids, table_before |-> cache ]
              /\ cache' = run.table
              /\ result' = Returned(run.value)
    /\ pc' = "done"
    /\ UNCHANGED <<now, provider>>

CacheClearMessages ==
    /\ pc = "idle"
    /\ call' = [op |-> "MessageCache.clear_messages", table_before |-> cache]
    /\ cache' = {}
    /\ result' = Returned("None")
    /\ pc' = "done"
    /\ UNCHANGED <<now, provider>>

CacheClear ==
    /\ pc = "idle"
    /\ call' = [op |-> "MessageCache.clear", table_before |-> cache]
    /\ cache' = {}
    /\ result' = Returned("None")
    /\ pc' = "done"
    /\ UNCHANGED <<now, provider>>

CacheGetMessageCount ==
    /\ pc = "idle"
    /\ call' = [op |-> "MessageCache.get_message_count", table_before |-> cache]
    /\ result' = Returned(MessageCache_get_message_count(cache))
    /\ pc' = "done"
    /\ UNCHANGED <<now, cache, provider>>

CacheReturn ==
    /\ pc = "done"
    /\ pc' = "idle"
    /\ call' = NoCall
    /\ result' = NoResult
    /\ UNCHANGED <<now, cache, provider>>

NextCache ==
    \/ CacheCacheMessages
    \/ CacheDeleteMessages
    \/ CacheClearMessages
    \/ CacheClear
    \/ CacheGetMessageCount
    \/ CacheReturn

SpecCache == InitCache /\ [][NextCache]_vars
----------------------------------------------------------------------------
(* SpecFetch: fetch_messages and _fetch_message_batch against a provider    *)
(* that answers, rate-limits or fails; cache is the messages table with the *)
(* age of last_fetch.                                                       *)

\* what the provider lists, a page at a time
PageLists ==
    { <<>>, << <<"m1">> >>, << <<"m2">> >>, << <<"m1", "m2">> >>,
      << <<"m1">>, <<"m2">> >> }

\* the provider's answers to the list requests of one call
ListScripts ==
    { <<>>, <<"429">>, <<"error">>, <<"ok", "error">>, <<"429", "error">> }

\* the provider's answers to the get requests of one fetch_messages call
GetScripts == { <<>>, <<"error">>, <<"429">>, <<"ok", "error">> }

FetchDays == {30, 90}

InitFetch ==
    /\ pc = "idle"
    /\ now = Today
    /\ cache = [messages |-> {}, last_fetch |-> <<>>]
    /\ provider = <<>>
    /\ call = NoCall
    /\ result = NoResult

\* an hour passes: last_fetch grows older
HourPasses ==
    /\ pc = "idle"
    /\ cache.last_fetch # <<>>
    /\ cache.last_fetch[1] < MaxHours
    /\ cache' = [cache EXCEPT !.last_fetch = <<cache.last_fetch[1] + 1>>]
    /\ UNCHANGED <<pc, now, provider, call, result>>

FetchMessageBatch ==
    /\ pc = "idle"
    /\ \E message_refs \in SeqsUpTo({"m1", "m2"}, MaxIds),
          size \in {1, batch_size},
          responses \in [1..MaxResponses -> Responses] :
          LET run == _fetch_message_batch(message_refs, size, responses, 0)
          IN  /\ call' = [ op |-> "_fetch_message_batch",
                           message_refs |-> message_refs,
                           batch_size |-> size,
                           responses |-> responses ]
              /\ result' = Returned(run.messages)
              /\ provider' = run.calls
    /\ pc' = "done"
    /\ UNCHANGED <<now, cache>>

FetchMessages ==
    /\ pc = "idle"
    /\ \E days \in FetchDays,
          service_given \in BOOLEAN,
          use_cache \in BOOLEAN,
          labels_ok \in BOOLEAN,
          pages \in PageLists,
          list_responses \in ListScripts,
          get_responses \in GetScripts :
          LET run == fetch_messages(days, service_given, use_cache, cache, now,
                                    labels_ok, pages, list_responses,
                                    get_responses)
          IN  /\ call' = [ op |-> "fetch_messages",
                           days |-> days,
                           use_cache |-> use_cache,
                           labels_ok |-> labels_ok,
                           pages |-> pages,
                           list_responses |-> list_responses,
                           get_responses |-> get_responses,
                           cache_before |-> cache ]
              /\ result' = run.result
              /\ cache' = run.cache
              /\ provider' = run.calls
    /\ pc' = "done"
    /\ UNCHANGED now

FetchReturn ==
    /\ pc = "done"
    /\ pc' = "idle"
    /\ call' = NoCall
    /\ result' = NoResult
    /\ provider' = <<>>
    /\ UNCHANGED <<now, cache>>

NextFetch ==
    \/ HourPasses
    \/ FetchMessageBatch
    \/ FetchMessages
    \/ FetchReturn

SpecFetch == InitFetch /\ [][NextFetch]_vars
----------------------------------------------------------------------------
(* SpecLabels: merge_labels against a provider whose requests can fail;     *)
(* provider is the log of the requests of the call.                        *)

\* message ids stand as numbers
Ids(first, last) == [k \in 1..(last - first + 1) |-> first + k - 1]

\* how many messages carry the source label
ListedCounts == {0, 1, 99, 100, 101, 200, 201}

\* what the provider lists for n messages: one page, or a first page of one
PagesOf(n) ==
    {<< Ids(1, n) >>} \cup
    (IF n >= 2 THEN { << Ids(1, 1), Ids(2, n) >> } ELSE {})

InitLabels ==
    /\ pc = "idle"
    /\ now = Today
    /\ cache = {}
    /\ provider = <<>>
    /\ call = NoCall
    /\ result = NoResult

\* requests that are not made cannot fail
MergeLabels ==
    /\ pc = "idle"
    /\ \E n \in ListedCounts,
          delete_source \in BOOLEAN,
          service_given \in BOOLEAN,
          delete_fails \in BOOLEAN :
       \E pages \in PagesOf(n),
          list_fail_at \in 0..2,
          batch_fails \in SUBSET {0, merge_batch_size, 2 * merge_batch_size} :
          LET run == merge_labels("Label_1", "Label_2", delete_source,
                                  service_given, pages, list_fail_at,
                                  batch_fails, delete_fails)
              asked(api) == {k \in 1..Len(run.calls) : run.calls[k].api = api}
          IN  /\ list_fail_at <= Cardinality(asked("list"))
              /\ \A i \in batch_fails : i < n /\ list_fail_at = 0
              /\ delete_fails => asked("labels.delete") # {}
              /\ call' = [ op |-> "merge_labels",
                           source_label_id |-> "Label_1",
                           target_label_id |-> "Label_2",
                           delete_source |-> delete_source,
                           pages |-> pages,
                           list_fail_at |-> list_fail_at,
                           batch_fails |-> batch_fails,
                           delete_fails |-> delete_fails ]
              /\ result' = Returned(run.result)
              /\ provider' = run.calls
    /\ pc' = "done"
    /\ UNCHANGED <<now, cache>>

LabelsReturn ==
    /\ pc = "done"
    /\ pc' = "idle"
    /\ call' = NoCall
    /\ result' = NoResult
    /\ provider' = <<>>
    /\ UNCHANGED <<now, cache>>

NextLabels ==
    \/ MergeLabels
    \/ LabelsReturn

SpecLabels == InitLabels /\ [][NextLabels]_vars
----------------------------------------------------------------------------
(* Properties *)

CalledOp(op) == pc = "done" /\ call.op = op

\* C1: for every message and context the score calculate_safety_score
\* produces is an integer in 0..100, however far the raw sum of the
\* adjustments lies above 100 or below 0.
C1_ScoreBounds ==
    CalledOp("calculate_safety_score") =>
        /\ result.outcome = "return"
        /\ result.value.type = "int"
        /\ result.value.value \in 0..100

\* a call whose raw sum exceeds 100 and whose score is 100
C1_Witness ==
    /\ CalledOp("calculate_safety_score")
    /\ RawScore(call.message, call.user_context, now) > 100
    /\ result.value.value = 100

\* C2: a message that carries a user-created label is never handed to the
\* scorer by find_deletion_candidates and never appears among the candidates
\* it returns, whatever min_score, context and flags are.
C2_LabelGate ==
    CalledOp("find_deletion_candidates") =>
        /\ \A k \in 1..Len(result.scored) : ~has_user_labels(result.scored[k])
        /\ result.outcome = "return" =>
              \A k \in 1..Len(result.value) :
                 \A j \in 1..Len(call.messages) :
                    has_user_labels(call.messages[j]) =>
                       result.value[k].message_id # call.messages[j].message_id

\* a call with min_score 0 on a list holding a user-labelled message that
\* completes without that message among its candidates
C2_Witness ==
    /\ CalledOp("find_deletion_candidates")
    /\ call.min_score = 0
    /\ \E j \in 1..Len(call.messages) : has_user_labels(call.messages[j])
    /\ result.outcome = "return"
    /\ result.scored = <<>>

\* the unlabeled messages of the call on which detection finds an exception
ExceptionalInputs ==
    { k \in 1..Len(call.messages) :
         /\ ~has_user_labels(call.messages[k])
         /\ detect_exceptions(call.messages[k], call.user_context).has_exceptions }

\* C3 (as claimed): with exclude_exceptions = True find_deletion_candidates
\* returns a list that holds no candidate for a message on which exception
\* detection finds an exception, also when its score is >= min_score.
C3_ExceptionsExcluded ==
    (CalledOp("find_deletion_candidates") /\ call.exclude_exceptions) =>
        \A k \in ExceptionalInputs :
           /\ result.outcome = "return"
           /\ \A c \in 1..Len(result.value) :
                 result.value[c].message_id # call.messages[k].message_id

\* a tracking number or a dollar amount >= 100 in subject + snippet
HasTrackingOrLargeAmount(message) ==
    LET text == Join(message.subject, message.snippet)
    IN  \/ LowerTokens(text) \cap TrackingTokens # {}
        \/ \E a \in Range(extract_dollar_amounts(text)) : a >= 100

\* C4 (as claimed): calculate_safety_score returns a record {score,
\* has_exceptions, exceptions}, with has_exceptions true and exceptions
\* non-empty for a message with a tracking number or an amount >= $100.
C4_ScoreResultRecord ==
    CalledOp("calculate_safety_score") =>
        /\ result.value.type = "dict"
        /\ {"score", "has_exceptions", "exceptions"} \subseteq DOMAIN result.value.value
        /\ HasTrackingOrLargeAmount(call.message) =>
              /\ result.value.value.has_exceptions
              /\ result.value.value.exceptions # <<>>

\* C5 (as claimed): delete_messages(ids, dry_run=True) leaves the cache as
\* it was before the call.
C5_DryRunKeepsCache ==
    (CalledOp("delete_messages") /\ call.dry_run) => cache = call.cache_before

\* C6: delete_messages(ids, dry_run=True) makes no provider call (no service
\* is built, nothing is trashed) and returns deleted = len(ids), failed = 0
\* and success = true, for every list ids.
C6_DryRunNoProviderCall ==
    (CalledOp("delete_messages") /\ call.dry_run) =>
        /\ provider = <<>>
        /\ result.outcome = "return"
        /\ result.value.deleted = Len(call.message_ids)
        /\ result.value.failed = 0
        /\ result.value.success = TRUE

\* a dry run over several ids for which no service was passed
C6_Witness ==
    /\ CalledOp("delete_messages")
    /\ call.dry_run
    /\ ~call.service_given
    /\ Len(call.message_ids) >= 2
    /\ result.value.deleted = Len(call.message_ids)

\* C7: for every message and context the score get_score_breakdown reports
\* is the score calculate_safety_score gives for the same arguments.
C7_BreakdownConsistent ==
    CalledOp("get_score_breakdown") =>
        /\ result.value.type = "dict"
        /\ result.value.value.score =
              calculate_safety_score(call.message, call.user_context, now)

\* a breakdown whose factors total more than 100 and whose score is the
\* clamped 100
C7_Witness ==
    /\ CalledOp("get_score_breakdown")
    /\ SumImpacts(result.value.value.factors) > 100
    /\ result.value.value.score.value = 100

\* the tier the four bands of the claim assign to a score of 0..100
ClaimedTier(score) ==
    IF score >= 90 THEN "very_safe"
    ELSE IF score >= 70 THEN "likely_safe"
    ELSE IF score >= 50 THEN "review"
    ELSE "keep"

\* C8: every score of 0..100 lies in exactly one band of SAFETY_TIERS, the
\* bands are very_safe [90,100], likely_safe [70,89], review [50,69] and
\* keep [0,49], and get_safety_tier returns the tier of that band.
C8_TierBands ==
    (CalledOp("get_safety_tier") /\ call.score \in 0..100) =>
        LET hits == {i \in 1..Len(SAFETY_TIERS) :
                        SAFETY_TIERS[i].min <= call.score
                        /\ call.score <= SAFETY_TIERS[i].max}
        IN  /\ Cardinality(hits) = 1
            /\ \A i \in hits : SAFETY_TIERS[i].name = ClaimedTier(call.score)
            /\ "name" \in DOMAIN result.value
            /\ result.value.name = ClaimedTier(call.score)
            /\ result.value.min <= call.score
            /\ call.score <= result.value.max

\* the upper end of a band: 89 is likely_safe
C8_Witness ==
    /\ CalledOp("get_safety_tier")
    /\ call.score = 89
    /\ result.value.name = "likely_safe"

\* C9 (as claimed): find_deletion_candidates returns its candidates in
\* non-increasing score order, candidates of equal score in the order their
\* messages had in the input.
C9_SortedStable ==
    CalledOp("find_deletion_candidates") =>
        /\ result.outcome = "return"
        /\ \A i, j \in 1..Len(result.value) :
              i < j =>
                 /\ result.value[i].score >= result.value[j].score
                 /\ result.value[i].score = result.value[j].score =>
                       \E p, q \in 1..Len(call.messages) :
                          /\ p <= q
                          /\ call.messages[p].message_id = result.value[i].message_id
                          /\ call.messages[q].message_id = result.value[j].message_id

\* the positions of the input whose message is unlabeled and scores >= min_score
Eligible ==
    { k \in 1..Len(call.messages) :
         /\ ~has_user_labels(call.messages[k])
         /\ calculate_safety_score(call.messages[k], call.user_context, now).value
               >= call.min_score }

\* C10 (as claimed): without exclude_exceptions find_deletion_candidates
\* returns exactly one candidate per unlabeled input message whose score is
\* >= min_score, and none for any other message.
C10_ExactlyEligible ==
    (CalledOp("find_deletion_candidates") /\ ~call.exclude_exceptions) =>
        /\ result.outcome = "return"
        /\ \A id \in MsgIds :
              Cardinality({c \in 1..Len(result.value) :
                              result.value[c].message_id = id})
              = Cardinality({k \in Eligible : call.messages[k].message_id = id})

\* the message with its date moved so that it is age_days old at the call
Aged(message, age_days) == [message EXCEPT !.date = <<now - age_days>>]

\* C11 (as claimed): a message older than 60 days gets both age bonuses
\* (+10 and +5), so its raw score is 5 higher than that of the same message
\* at an age of 31..60 days.
C11_OlderBonusStacks ==
    (CalledOp("calculate_safety_score")
        /\ _message_age_days(call.message, now) > 60) =>
        \A age_days \in 31..60 :
           RawScore(call.message, call.user_context, now)
              = RawScore(Aged(call.message, age_days), call.user_context, now) + 5

\* the score of the call's message with one of its flags set to v
ScoreWith(field, v) ==
    calculate_safety_score([call.message EXCEPT ![field] = v],
                           call.user_context, now).value

\* C12 (as claimed): for every message and context, changing only is_unread
\* from false to true makes calculate_safety_score return a strictly higher
\* score.
C12_UnreadStrictlyHigher ==
    (CalledOp("calculate_safety_score") /\ ~call.message.is_unread) =>
        ScoreWith("is_unread", TRUE) > result.value.value

\* C12 (amended): changing only is_unread from false to true never lowers
\* the score, and raises it strictly whenever the score of the read
\* message is below 100 and the score of the unread message is above 0.
C12_UnreadHigherUnlessClamped ==
    (CalledOp("calculate_safety_score") /\ ~call.message.is_unread) =>
        /\ ScoreWith("is_unread", TRUE) >= result.value.value
        /\ (result.value.value < 100 /\ ScoreWith("is_unread", TRUE) > 0) =>
              ScoreWith("is_unread", TRUE) > result.value.value

\* a read message that scores below 100 and scores 15 more once unread
C12_Witness ==
    /\ CalledOp("calculate_safety_score")
    /\ ~call.message.is_unread
    /\ result.value.value \in 1..85
    /\ ScoreWith("is_unread", TRUE) = result.value.value + 15

\* C13 (as claimed): for every message and context, changing only
\* has_attachments from false to true makes calculate_safety_score return a
\* strictly lower score.
C13_AttachmentsStrictlyLower ==
    (CalledOp("calculate_safety_score") /\ ~call.message.has_attachments) =>
        ScoreWith("has_attachments", TRUE) < result.value.value

\* C13 (amended): changing only has_attachments from false to true never
\* raises the score, and lowers it strictly whenever the score of the
\* message without attachments is above 0.
C13_AttachmentsLowerUnlessZero ==
    (CalledOp("calculate_safety_score") /\ ~call.message.has_attachments) =>
        /\ ScoreWith("has_attachments", TRUE) <= result.value.value
        /\ result.value.value > 0 =>
              ScoreWith("has_attachments", TRUE) < result.value.value

\* a message without attachments that scores 100 and scores less with them
C13_Witness ==
    /\ CalledOp("calculate_safety_score")
    /\ ~call.message.has_attachments
    /\ result.value.value = 100
    /\ ScoreWith("has_attachments", TRUE) < 100

\* C14 (as claimed): two calls of calculate_safety_score with equal message
\* and equal context return equal results, whatever the moment of each call.
C14_SameResultAnyTime ==
    pc = "second" => result = call.first.result

\* the message's age at both calls lies on the same side of 7 and of 30 days
SameAgeBand ==
    LET first_age == _message_age_days(call.message, call.first.clock)
        second_age == _message_age_days(call.message, call.clock)
    IN  /\ (first_age < 7) = (second_age < 7)
        /\ (first_age > 30) = (second_age > 30)

\* C14 (amended): calculate_safety_score is a function of message, context
\* and the message's age at the moment of the call: two calls with equal
\* arguments return equal results when the message has no date or its age is
\* on the same side of the 7-day and the 30-day threshold at both calls.
C14_SameResultSameAgeBand ==
    (pc = "second" /\ SameAgeBand) => result = call.first.result

\* a dated message scored on two different days with equal results
C14_Witness ==
    /\ pc = "second"
    /\ call.message.date # <<>>
    /\ call.first.clock < call.clock
    /\ SameAgeBand
    /\ result = call.first.result

\* a message without date, sender, subject, snippet and labels
MissingFields(message) ==
    /\ message.date = <<>>
    /\ message.sender = ""
    /\ message.subject = <<>>
    /\ message.snippet = <<>>
    /\ message.labels = {}

\* C15 (as claimed): no entry point of the scoring core raises on a message
\* with missing fields; here find_deletion_candidates on a list that holds a
\* message without date, sender, subject, snippet and labels.
C15_MissingFieldsNoRaise ==
    (CalledOp("find_deletion_candidates")
        /\ \E k \in 1..Len(call.messages) : MissingFields(call.messages[k])) =>
        result.outcome = "return"

\* the position of the k-th failing trash call of the delete_messages call
FailedAt(k) ==
    CHOOSE i \in call.fails : Cardinality({j \in call.fails : j <= i}) = k

\* C16: after delete_messages(ids, dry_run=False) on a non-empty list,
\* deleted + failed = len(ids), success = (failed = 0), total_errors = failed
\* and errors holds the first min(10, failed) {message_id, error} pairs in
\* processing order.
C16_DeleteCounts ==
    (CalledOp("delete_messages") /\ ~call.dry_run /\ call.message_ids # <<>>) =>
        /\ result.outcome = "return"
        /\ result.value.deleted + result.value.failed = Len(call.message_ids)
        /\ result.value.failed = Cardinality(call.fails)
        /\ result.value.success = (result.value.failed = 0)
        /\ result.value.total_errors = result.value.failed
        /\ Len(result.value.errors) = Min(10, result.value.failed)
        /\ \A k \in 1..Len(result.value.errors) :
              /\ DOMAIN result.value.errors[k] = {"message_id", "error"}
              /\ result.value.errors[k].message_id = call.message_ids[FailedAt(k)]

\* a call in which 11 trash calls fail and 10 errors are returned
C16_Witness ==
    /\ CalledOp("delete_messages")
    /\ ~call.dry_run
    /\ result.value.failed = 11
    /\ result.value.total_errors = 11
    /\ Len(result.value.errors) = 10

\* the positions of the call whose trash call succeeded
Succeeded == (1..Len(call.message_ids)) \ call.fails

\* every cached message whose id is not in ids is still there, and nothing
\* was added
OthersUntouched ==
    /\ cache \subseteq call.cache_before
    /\ call.cache_before \ Range(call.message_ids) \subseteq cache

C18_OutsideIsKeep ==
    (CalledOp("get_safety_tier") /\ call.score \notin 0..100) =>
        /\ result.outcome = "return"
        /\ DOMAIN result.value = {"name", "label", "color", "min", "max"}
        /\ result.value.name = "keep"

\* the labels of the form CATEGORY_* among those that occur
CategoryLabels ==
    { "CATEGORY_PERSONAL", "CATEGORY_SOCIAL", "CATEGORY_PROMOTIONS",
      "CATEGORY_UPDATES", "CATEGORY_FORUMS", "CATEGORY_PURCHASES" }

\* the system set of the claim
ClaimedSystemLabels ==
    { "INBOX", "UNREAD", "SENT", "DRAFT", "SPAM", "TRASH", "STARRED",
      "IMPORTANT" } \cup CategoryLabels

\* C19 (as claimed): has_user_labels(message) is true iff at least one label
\* of the message lies outside the eight named system labels and the labels
\* of the form CATEGORY_*; a message without a labels field has none.
C19_UserLabelIff ==
    CalledOp("has_user_labels") =>
        /\ result.outcome = "return"
        /\ "labels" \notin DOMAIN call.message => result.value = FALSE
        /\ "labels" \in DOMAIN call.message =>
              result.value = (\E label \in call.message.labels :
                                 label \notin ClaimedSystemLabels)

\* what the detectors produced in the detect_exceptions call: nothing when
\* the text is empty and they are not run
Pooled ==
    IF Join(call.message.subject, call.message.snippet) = <<>> THEN <<>>
    ELSE AllExceptions(call.message, call.user_context)

\* C20: the exceptions list detect_exceptions returns holds at most one
\* exception per type, each exception in it is the highest-severity
\* exception any detector produced for its type, and every type a detector
\* produced is in it.
C20_OnePerTypeHighest ==
    CalledOp("detect_exceptions") =>
        LET excs == result.value.exceptions
        IN  /\ \A i, j \in 1..Len(excs) : i # j => excs[i].type # excs[j].type
            /\ \A i \in 1..Len(excs) :
                  /\ excs[i] \in Range(Pooled)
                  /\ \A e \in Range(Pooled) :
                        e.type = excs[i].type => e.severity <= excs[i].severity
            /\ \A e \in Range(Pooled) :
                  \E i \in 1..Len(excs) : excs[i].type = e.type

\* a call that returns four exceptions of four types, two of them with the
\* same severity
C20_Witness ==
    /\ CalledOp("detect_exceptions")
    /\ Len(result.value.exceptions) >= 4
    /\ \E i, j \in 1..Len(result.value.exceptions) :
          /\ i # j
          /\ result.value.exceptions[i].severity = result.value.exceptions[j].severity

\* C21: detect_exceptions returns exception_score = min(100, max severity +
\* min(10, 5 * (count - 1))) over the exceptions it returns and 0 when there
\* are none; has_exceptions is true iff the list is non-empty iff
\* exception_score > 0.
C21_ExceptionScore ==
    CalledOp("detect_exceptions") =>
        LET excs == result.value.exceptions
            count == Len(excs)
        IN  /\ result.value.has_exceptions = (count > 0)
            /\ result.value.has_exceptions = (result.value.exception_score > 0)
            /\ count = 0 => result.value.exception_score = 0
            /\ count > 0 =>
                  \E i \in 1..count :
                     /\ \A j \in 1..count : excs[j].severity <= excs[i].severity
                     /\ result.value.exception_score =
                           Min(100, excs[i].severity + Min(10, 5 * (count - 1)))

\* a call with at least three exceptions, the most severe not the first:
\* the bonus is capped at 10
C21_Witness ==
    /\ CalledOp("detect_exceptions")
    /\ Len(result.value.exceptions) >= 3
    /\ \E i \in 2..Len(result.value.exceptions) :
          /\ result.value.exceptions[i].severity > result.value.exceptions[1].severity
          /\ result.value.exception_score = result.value.exceptions[i].severity + 10

\* C22 (as claimed): get_deletion_summary(messages, ctx) returns a result in
\* which the four tier_counts sum to unlabeled_count, deletable = very_safe
\* + likely_safe, deletable + needs_review + keep = unlabeled_count <=
\* total_messages = len(messages), and exceptions_count <= unlabeled_count.
C22_SummaryInvariants ==
    CalledOp("get_deletion_summary") =>
        /\ result.outcome = "return"
        /\ LET r == result.value
               tc == r.tier_counts
           IN  /\ tc["very_safe"] + tc["likely_safe"] + tc["review"] + tc["keep"]
                     = r.unlabeled_count
               /\ r.deletable = tc["very_safe"] + tc["likely_safe"]
               /\ r.deletable + r.needs_review + r.keep = r.unlabeled_count
               /\ r.unlabeled_count <= r.total_messages
               /\ r.total_messages = Len(call.messages)
               /\ r.exceptions_count <= r.unlabeled_count

\* the message_ids of the rows of a table
IdsOf(table) == {r.message_id : r \in table}

\* the last message of the list with the given id
LastWithId(messages, id) ==
    messages[CHOOSE k \in 1..Len(messages) :
                /\ messages[k].message_id = id
                /\ \A j \in (k + 1)..Len(messages) : messages[j].message_id # id]

\* C23: after any sequence of cache_messages, delete_messages,
\* clear_messages and clear calls the messages table holds exactly one row
\* per message_id cached and not since deleted or cleared, the row of a
\* re-cached id being the one cached last; get_message_count is the number
\* of these ids; delete_messages returns the number of rows it removed.
C23_CacheRows ==
    /\ \A r1, r2 \in cache : r1.message_id = r2.message_id => r1 = r2
    /\ CalledOp("MessageCache.cache_messages") =>
          /\ IdsOf(cache) = IdsOf(call.table_before) \cup IdsOf(Range(call.messages))
          /\ \A r \in cache :
                IF r.message_id \in IdsOf(Range(call.messages))
                THEN r = LastWithId(call.messages, r.message_id)
                ELSE r \in call.table_before
          /\ result.value = Len(call.messages)
    /\ CalledOp("MessageCache.delete_messages") =>
          /\ cache = {r \in call.table_before :
                         r.message_id \notin Range(call.message_ids)}
          /\ result.value = Cardinality(call.table_before) - Cardinality(cache)
    /\ (CalledOp("MessageCache.clear_messages") \/ CalledOp("MessageCache.clear")) =>
          cache = {}
    /\ CalledOp("MessageCache.get_message_count") =>
          /\ cache = call.table_before
          /\ result.value = Cardinality(IdsOf(cache))

\* re-caching: a cached id is cached again with other content and the table
\* still holds one row for it, the new one
C23_Witness ==
    /\ CalledOp("MessageCache.cache_messages")
    /\ \E r \in call.table_before :
          /\ r \notin cache
          /\ r.message_id \in IdsOf(cache)
    /\ Cardinality(cache) = Cardinality(call.table_before)

\* C24: for every message and context the impacts of the factors
\* get_score_breakdown lists (the base 50 included) sum to the raw sum of
\* the adjustments calculate_safety_score applied, and that sum clamped to
\* [0, 100] is the score the breakdown reports.
C24_FactorsSumToScore ==
    CalledOp("get_score_breakdown") =>
        LET total == SumImpacts(result.value.value.factors)
        IN  /\ result.value.value.factors[1] = [factor |-> "Base score", impact |-> 50]
            /\ total = RawScore(call.message, call.user_context, now)
            /\ result.value.value.score.value = Max(0, Min(100, total))

\* the breakdown of a message older than 60 days whose factors sum to a
\* score strictly inside the range
C24_Witness ==
    /\ CalledOp("get_score_breakdown")
    /\ _message_age_days(call.message, now) > 60
    /\ SumImpacts(result.value.value.factors) \in 1..99
    /\ result.value.value.score.value = SumImpacts(result.value.value.factors)

\* the result of the detect_exceptions call holds a has_attachments
\* exception of severity 30
ReportsAttachments ==
    /\ result.value.has_exceptions
    /\ \E i \in 1..Len(result.value.exceptions) :
          /\ result.value.exceptions[i].type = "has_attachments"
          /\ result.value.exceptions[i].severity = 30

\* C25 (as claimed): for every message with has_attachments true,
\* detect_exceptions reports a has_attachments exception of severity 30 and
\* has_exceptions is true, also when subject and snippet are both empty.
C25_AttachmentsAlwaysReported ==
    (CalledOp("detect_exceptions") /\ call.message.has_attachments) =>
        ReportsAttachments

\* C25 (amended): for every message with has_attachments true whose subject
\* or snippet is non-empty, detect_exceptions reports a has_attachments
\* exception of severity 30 and has_exceptions is true; when subject and
\* snippet are both empty it reports no exception at all.
C25_AttachmentsReportedWithText ==
    (CalledOp("detect_exceptions") /\ call.message.has_attachments) =>
        IF Join(call.message.subject, call.message.snippet) # <<>>
        THEN ReportsAttachments
        ELSE /\ ~result.value.has_exceptions
             /\ result.value.exceptions = <<>>
             /\ result.value.exception_score = 0

\* a message with attachments whose text triggers no other detector: the
\* attachment exception is the only one
C25_Witness ==
    /\ CalledOp("detect_exceptions")
    /\ call.message.has_attachments
    /\ Join(call.message.subject, call.message.snippet) # <<>>
    /\ Len(result.value.exceptions) = 1
    /\ ReportsAttachments

\* the action-deadline keywords of detect_legal_important
DeadlineWords == { "action required", "respond by", "deadline", "final notice" }

\* the severities of the legal_important exceptions of the result
LegalSeverities ==
    { result.value.exceptions[i].severity :
         i \in { j \in 1..Len(result.value.exceptions) :
                    result.value.exceptions[j].type = "legal_important" } }

\* C26 (as claimed): a text that contains action-deadline language gets a
\* legal_important exception of severity 60, also when it contains other
\* legal keywords as well; a text that matches only other legal keywords
\* gets severity 45.
C26_DeadlineSeverity ==
    CalledOp("detect_exceptions") =>
        LET words == LowerTokens(Join(call.message.subject, call.message.snippet))
        IN  /\ words \cap DeadlineWords # {} => LegalSeverities = {60}
            /\ (words \cap DeadlineWords = {} /\ words \cap Range(LEGAL_KEYWORDS) # {}) =>
                  LegalSeverities = {45}

\* the permanent provider deletes among the calls made
PermanentDeletes == {k \in 1..Len(provider) : provider[k].api = "delete"}

\* C27: permanently_delete_messages with confirm = False and dry_run = False
\* makes no provider call and no cache change and returns success = false
\* with deleted = 0; a permanent provider delete is issued only when confirm
\* is true and dry_run is false.
C27_ConfirmRequired ==
    CalledOp("permanently_delete_messages") =>
        /\ (~call.confirm /\ ~call.dry_run) =>
              /\ provider = <<>>
              /\ cache = call.cache_before
              /\ result.outcome = "return"
              /\ result.value.success = FALSE
              /\ result.value.deleted = 0
        /\ PermanentDeletes # {} => (call.confirm /\ ~call.dry_run)

\* an unconfirmed real run over cached ids is refused, and a confirmed one
\* would have deleted: the ids are still cached
C27_Witness ==
    /\ CalledOp("permanently_delete_messages")
    /\ ~call.confirm
    /\ ~call.dry_run
    /\ Len(call.message_ids) = 2
    /\ Range(call.message_ids) \subseteq cache
    /\ result.value.success = FALSE

\* the get requests made for the k-th reference of the call
Attempts(k) ==
    {n \in 1..Len(provider) : provider[n].api = "get" /\ provider[n].pos = k}

RateLimited(k) == {n \in Attempts(k) : provider[n].response = "429"}

GivenUp(k) == \A n \in Attempts(k) : provider[n].response # "ok"

FetchedIds ==
    { provider[n].id : n \in { n \in 1..Len(provider) :
                                 /\ provider[n].api = "get"
                                 /\ provider[n].response = "ok" } }

C29_CacheReplacedAtomically ==
    CalledOp("fetch_messages") =>
        \/ cache.messages = call.cache_before.messages
        \/ /\ result.outcome = "return"
           /\ cache.messages = {extract_message_metadata(id) : id \in FetchedIds}

\* the requests of one kind in the provider's log
Requests(api) == {k \in 1..Len(provider) : provider[k].api = api}

FailedBatches == {k \in Requests("batchModify") : provider[k].response = "error"}

\* the messages of the batches the provider accepted
RECURSIVE ModifiedIn(_)
ModifiedIn(log) ==
    IF log = <<>> THEN 0
    ELSE (IF log[1].api = "batchModify" /\ log[1].response = "ok"
          THEN Len(log[1].ids) ELSE 0) + ModifiedIn(Tail(log))

\* C30: merge_labels asks the provider to delete the source label only when
\* delete_source is true and every batchModify call succeeded; if a batch
\* failed the source label is not deleted, success is false, and
\* messages_modified counts the messages of the batches that succeeded.
C30_SourceDeletedOnlyAfterFullMerge ==
    CalledOp("merge_labels") =>
        /\ Requests("labels.delete") # {} =>
              call.delete_source /\ FailedBatches = {}
        /\ FailedBatches # {} =>
              /\ Requests("labels.delete") = {}
              /\ result.value.source_deleted = FALSE
              /\ result.value.success = FALSE
              /\ result.value.messages_modified = ModifiedIn(provider)

C30_Witness ==
    /\ CalledOp("merge_labels")
    /\ call.delete_source
    /\ FailedBatches # {}
    /\ Cardinality(Requests("batchModify")) = 3
    /\ result.value.messages_modified = 101
    /\ result.value.success = FALSE

====
